---- MODULE Spec2Model ----
(***************************************************************************)
(* Task ledger, CV analysis and interview pipelines and approval gate of   *)
(* the job-hunt agent, as state machines over the relational tables        *)
(* `tasks`, `approvals` and `interview_questions`.                         *)
(***************************************************************************)
EXTENDS Integers, Sequences, FiniteSets, TLC

VARIABLES
  now,        \* the wall clock read by `new Date()`
  tasks,      \* table tasks: sequence of rows, a row's id is its index
  approvals,  \* table approvals: sequence of rows, a row's id is its index
  interview_questions,  \* table interview_questions, likewise
  pc,         \* position of the pipeline invocation in analyzeCV
  state,      \* the CVState object of the invocation
  llmCalls,   \* number of llm.invoke calls made by the invocation
  stagesRun,  \* the node functions the invocation has called, in order
  runs,       \* number of pipeline invocations started
  hist,       \* what happened in the invocation (history, read by the properties only)
  call,       \* the handleApprovalDecision requests in flight, one slot per caller
  decides,    \* number of decide requests issued; per approval, the requests
              \* issued while it was pending that succeeded (history)
  ui,         \* state of the CVAnalysisClient component
  genLog,     \* the artifact generations started, with what each one read
  rateLimits, \* table rate_limits: sequence of hits
  rl,         \* the checkLimit calls in flight, one slot per caller
  rlLog,      \* the checkLimit calls that returned, in order (history)
  cache,      \* table cache: sequence of rows
  cget,       \* the CacheService.get calls in flight, one slot per caller
  cret,       \* what the get that returned last gave its caller (history)
  lastSet,    \* per scoped key, the entry of the latest set and the number of
              \* sets since the key was last deleted (history)
  sets,       \* number of CacheService.set calls made
  got,        \* what the last TaskService.getTask call returned, and what it
              \* returns without the rows of other owners (history)
  poll,       \* the pollTask calls, one slot per caller
  shadow,     \* the same pollTask calls run without the rows of other owners
  uncleaned,  \* table rate_limits as it would be had cleanup never run (history)
  uncleanedLog, \* what each checkLimit call returns on `uncleaned` (history)
  cleaned,    \* the last cleanup call: its clock, argument and the table
              \* before and after it (history)
  cleared     \* the last clearUserCache call: its argument and the cache
              \* table before and after it (history)

dbVars   == <<tasks, approvals, interview_questions>>
pipeVars == <<pc, state, llmCalls, stagesRun, runs, hist>>
gateVars == <<call, decides, ui, genLog>>
cleanVars == <<uncleaned, uncleanedLog, cleaned>>
rateVars == <<rateLimits, rl, rlLog, cleanVars>>
cacheVars == <<cache, cget, cret, lastSet, sets, cleared>>
ownVars  == <<got, poll, shadow>>
svcVars  == <<rateVars, cacheVars, ownVars>>
vars     == <<now, tasks, approvals, interview_questions, pc, state, llmCalls, stagesRun, runs, hist,
              call, decides, ui, genLog, rateLimits, rl, rlLog,
              cache, cget, cret, lastSet, sets, got, poll, shadow,
              uncleaned, uncleanedLog, cleaned, cleared>>

----------------------------------------------------------------------------
(* Bounds of the model *)

MaxClock == 3
MaxTasks == 1
MaxRuns  == 1
MaxItems == 2
MaxDecides == 2
MaxGens  == 1
MaxCalls == 3
MaxSets  == 2
MaxAttempts == 2

----------------------------------------------------------------------------
(* Values *)

Users == {"u1", "u2"}

\* null / undefined of a text column or an optional string
Null == "null"

\* JavaScript truthiness of an optional string: undefined, null and '' are falsy
Truthy(s) == s \notin {Null, ""}

Terminal == {"completed", "failed"}

\* the value of `improvements` in a JSON document or in CVState:
\* shape "array" carries the items; "string" is a non-empty string, "object"
\* a non-array object or number; "absent" is undefined / null / falsy
ImpValue(shape, items) == [shape |-> shape, items |-> items]
NoImprovements == ImpValue("absent", <<>>)
EmptyList      == ImpValue("array", <<>>)

\* a jsonb result column that was never written
NullAnalysis == [overallScore |-> 0, sections |-> Null, strengths |-> Null,
                 weaknesses |-> Null, recommendations |-> Null]
NullResult   == [analysis |-> NullAnalysis, improvements |-> NoImprovements,
                 documentId |-> Null]
\* `result` argument left undefined by the caller
UndefinedResult == [analysis |-> NullAnalysis, improvements |-> NoImprovements,
                    documentId |-> "undefined"]

\* the CVState analyzeCV starts from, and the history of a fresh invocation
InitState == [userId |-> Null, sessionId |-> 0, documentId |-> Null,
              cvContent |-> Null, analysis |-> NullAnalysis,
              improvements |-> EmptyList, approvalStatus |-> "pending",
              error |-> Null]

InitHist == [failedAt |-> "none", failMsg |-> Null, llmAtFail |-> 0,
             upstream |-> FALSE, malformed |-> {},
             tasks0 |-> 0, approvals0 |-> 0, questions0 |-> 0]

----------------------------------------------------------------------------
(* TaskService *)

TaskResults == { [analysis |-> [NullAnalysis EXCEPT !.strengths = r],
                  improvements |-> NoImprovements, documentId |-> Null]
                 : r \in {"r1", "r2"} }

NewTask(userId, sessionId, taskType, t) ==
  [user_id |-> userId, session_id |-> sessionId, task_type |-> taskType,
   status |-> "processing", result |-> NullResult, error_message |-> Null,
   created_at |-> t, completed_at |-> 0]

CreateTask(userId, sessionId, taskType) ==
  /\ Len(tasks) < MaxTasks
  /\ tasks' = Append(tasks, NewTask(userId, sessionId, taskType, now))
  /\ UNCHANGED <<now, svcVars, approvals, interview_questions, pipeVars, gateVars>>

\* the row after `set(updateData)`: status always, completedAt for a terminal
\* status, result unless undefined, errorMessage when truthy
UpdateData(row, status, result, errorMessage, t) ==
  [row EXCEPT !.status = status,
              !.completed_at = IF status \in Terminal THEN t ELSE @,
              !.result = IF result # UndefinedResult THEN result ELSE @,
              !.error_message = IF Truthy(errorMessage) THEN errorMessage ELSE @]

\* update ... where id = taskId: no condition on the current status
updateTaskStatus(taskId, status, result, errorMessage) ==
  tasks' = [i \in DOMAIN tasks |->
              IF i = taskId
              THEN UpdateData(tasks[i], status, result, errorMessage, now)
              ELSE tasks[i]]

UpdateTaskStatus(taskId, status, result, errorMessage) ==
  /\ updateTaskStatus(taskId, status, result, errorMessage)
  /\ UNCHANGED <<now, svcVars, approvals, interview_questions, pipeVars, gateVars>>

CompleteTask(taskId, result) ==
  /\ updateTaskStatus(taskId, "completed", result, Null)
  /\ UNCHANGED <<now, svcVars, approvals, interview_questions, pipeVars, gateVars>>

FailTask(taskId, errorMessage) ==
  /\ updateTaskStatus(taskId, "failed", UndefinedResult, errorMessage)
  /\ UNCHANGED <<now, svcVars, approvals, interview_questions, pipeVars, gateVars>>

\* time passes
Tick ==
  /\ now < MaxClock
  /\ now' = now + 1
  /\ UNCHANGED <<dbVars, pipeVars, gateVars, svcVars>>

----------------------------------------------------------------------------
(* The external collaborators' answers *)

\* documentService.getDocument: the row, with or without parsed_content; no
\* data; or a thrown error (.single() found no row of this owner)
Documents == {"parsed", "unparsed", "missing", "throws"}

DocumentError == "Failed to fetch document"
LLMError      == "LLM request failed"

\* analysis objects the model may return as JSON
FallbackAnalysis ==
  [overallScore |-> 70, sections |-> "{}",
   strengths |-> "Document uploaded successfully",
   weaknesses |-> "Detailed analysis unavailable",
   recommendations |-> "Review CV structure manually"]
ModelAnalysis ==
  [overallScore |-> 85, sections |-> "contactInfo,summary,experience",
   strengths |-> "clear layout", weaknesses |-> "few metrics",
   recommendations |-> "quantify achievements"]
\* a JSON object that parses but has none of the expected fields
MismatchAnalysis == [NullAnalysis EXCEPT !.sections = "unexpected"]

\* improvement items the model may return; NullItem is the JSON literal null
Item(id, type, title) == [isNull |-> FALSE, id |-> id, type |-> type,
                          title |-> title, originalContent |-> Null]
Item1    == Item("imp-1", "add", "Add metrics")
Item2    == Item("imp-2", Null, "Stronger verbs")
NullItem == [isNull |-> TRUE, id |-> Null, type |-> Null, title |-> Null,
             originalContent |-> Null]
FallbackItem == Item("fallback-1", "edit", "Review and enhance")
FallbackImprovements == ImpValue("array", <<FallbackItem>>)

\* sequences of distinct elements of S, of length at most n
RECURSIVE ListsUpTo(_, _)
ListsUpTo(S, n) ==
  IF n = 0 THEN {<<>>}
  ELSE LET shorter == ListsUpTo(S, n - 1)
       IN shorter \cup { Append(l, x) : l \in shorter, x \in S }
DistinctLists(S, n) ==
  { l \in ListsUpTo(S, n) : \A i, j \in DOMAIN l : i # j => l[i] # l[j] }

\* a response of llm.invoke: it throws, or carries content. The content is
\* text that is no JSON ("garbage"), JSON cut short ("truncated"), or a JSON
\* document, possibly wrapped in ```json fences
Response(raises, fenced, text, value) ==
  [raises |-> raises, fenced |-> fenced, text |-> text, value |-> value]

AnalysisResponses ==
  { Response(TRUE, FALSE, "garbage", NullAnalysis) } \cup
  { Response(FALSE, FALSE, t, NullAnalysis) : t \in {"garbage", "truncated"} } \cup
  { Response(FALSE, f, "json", v) :
      f \in BOOLEAN, v \in {ModelAnalysis, MismatchAnalysis, NullAnalysis} }

\* the JSON documents of the improvements stage: null, or an object whose
\* `improvements` member has one of the shapes of ImpValue
JsonNull     == [isNull |-> TRUE, improvements |-> NoImprovements]
JsonObject(imp) == [isNull |-> FALSE, improvements |-> imp]

ImprovementDocs(items) ==
  { JsonNull, JsonObject(NoImprovements), JsonObject(ImpValue("string", <<>>)),
    JsonObject(ImpValue("object", <<>>)) } \cup
  { JsonObject(ImpValue("array", l)) : l \in DistinctLists(items, MaxItems) }

ImprovementResponses(items) ==
  { Response(TRUE, FALSE, "garbage", JsonNull) } \cup
  { Response(FALSE, FALSE, t, JsonNull) : t \in {"garbage", "truncated"} } \cup
  { Response(FALSE, f, "json", v) : f \in BOOLEAN, v \in ImprovementDocs(items) }

\* content.replace(/```json\n?/g, '').replace(/```\n?/g, '').trim()
CleanContent(content) == [content EXCEPT !.fenced = FALSE]

\* JSON.parse: fails on fenced, non-JSON or truncated text
JSONParse(content, none) ==
  IF content.fenced \/ content.text # "json"
  THEN [ok |-> FALSE, value |-> none]
  ELSE [ok |-> TRUE, value |-> content.value]

\* what the expected schema admits
FitsAnalysisSchema(v) == v \notin {MismatchAnalysis, NullAnalysis}
FitsImprovementsSchema(v) ==
  /\ ~v.isNull
  /\ v.improvements.shape = "array"
  /\ \A i \in DOMAIN v.improvements.items :
       /\ ~v.improvements.items[i].isNull
       /\ v.improvements.items[i].type # Null

\* the response is malformed: not JSON, truncated, or JSON outside the schema
Malformed(resp, fitsSchema) ==
  /\ ~resp.raises
  /\ \/ resp.text # "json"
     \/ ~fitsSchema

----------------------------------------------------------------------------
(* CVAgent.analyzeCV and its nodes *)

\* the update of a node thrown away
KeepState(st, update) == st

\* Object.assign(state, update)
Merge(st, update) ==
  [f \in DOMAIN st |-> IF f \in DOMAIN update THEN update[f] ELSE st[f]]

\* `if (state.error)` of analyzeCV and of the nodes
HasError(st) == Truthy(st.error)

NoteFailure(h, stage, st, calls, upstream) ==
  IF HasError(st) /\ h.failedAt = "none"
  THEN [h EXCEPT !.failedAt = stage, !.failMsg = st.error,
                 !.llmAtFail = calls, !.upstream = upstream]
  ELSE h

\* analyzeCV without its `if (state.error)` short-circuit
AfterStageNoCheck(st, next, save) == next

\* after the merge of a node's update: on error go to saveResultsNode
AfterStage(st, next, save) == IF HasError(st) THEN save ELSE next

\* no invocation is running
Idle == {"idle", "done", "interviewDone"}

\* triggerCVAnalysisWorkflow creates a session and calls analyzeCV
analyzeCV(userId, documentId) ==
  /\ pc \in Idle
  /\ runs < MaxRuns
  /\ runs' = runs + 1
  /\ state' = [InitState EXCEPT !.userId = userId, !.sessionId = runs + 1,
                                !.documentId = documentId]
  /\ pc' = "parse"
  /\ llmCalls' = 0
  /\ stagesRun' = <<>>
  /\ hist' = [InitHist EXCEPT !.tasks0 = Len(tasks), !.approvals0 = Len(approvals),
                               !.questions0 = Len(interview_questions)]
  /\ UNCHANGED <<now, svcVars, dbVars>>

StartRun(userId, documentId) ==
  /\ analyzeCV(userId, documentId)
  /\ UNCHANGED gateVars

parseCVNode(st, doc) ==
  CASE doc = "throws"   -> [error |-> DocumentError]
    [] doc = "missing"  -> [error |-> "Document not found"]
    [] doc = "unparsed" -> [cvContent |-> "No parsed content available"]
    [] OTHER            -> [cvContent |-> "cv text"]

ParseCVNode(doc) ==
  /\ pc = "parse"
  /\ LET st == Merge(state, parseCVNode(state, doc))
     IN /\ state' = st
        /\ pc' = AfterStage(st, "analyze", "persist")
        /\ hist' = NoteFailure(hist, "parse", st, llmCalls, TRUE)
  /\ stagesRun' = Append(stagesRun, "parse")
  /\ UNCHANGED <<now, svcVars, dbVars, llmCalls, runs, gateVars>>

analyzeStructureNode(st, resp) ==
  IF HasError(st) THEN [skipped |-> TRUE]
  ELSE IF resp.raises THEN [error |-> LLMError]
  ELSE LET parsed == JSONParse(CleanContent(resp), NullAnalysis)
       IN [analysis |-> IF parsed.ok THEN parsed.value ELSE FallbackAnalysis]

AnalyzeStructureNode(resp) ==
  /\ pc = "analyze"
  /\ LET st == Merge(state, analyzeStructureNode(state, resp))
         calls == IF HasError(state) THEN llmCalls ELSE llmCalls + 1
     IN /\ state' = st
        /\ llmCalls' = calls
        /\ pc' = AfterStage(st, "identify", "persist")
        /\ hist' = [NoteFailure(hist, "analyze", st, calls, resp.raises)
                      EXCEPT !.malformed =
                        IF ~HasError(state) /\ Malformed(resp, FitsAnalysisSchema(resp.value))
                        THEN @ \cup {"analyze"} ELSE @]
  /\ stagesRun' = Append(stagesRun, "analyze")
  /\ UNCHANGED <<now, svcVars, dbVars, runs, gateVars>>

\* improvementsData.improvements || []
OrEmptyList(imp) == IF imp.shape = "absent" THEN EmptyList ELSE imp

identifyImprovementsNode(st, resp) ==
  IF HasError(st) THEN [skipped |-> TRUE]
  ELSE IF resp.raises THEN [error |-> LLMError]
  ELSE LET parsed == JSONParse(CleanContent(resp), JsonNull)
           data   == IF parsed.ok THEN parsed.value
                     ELSE JsonObject(FallbackImprovements)
       IN IF data.isNull
          THEN [error |-> "Cannot read properties of null (reading 'improvements')"]
          ELSE [improvements |-> OrEmptyList(data.improvements)]

IdentifyImprovementsNode(resp) ==
  /\ pc = "identify"
  /\ LET st == Merge(state, identifyImprovementsNode(state, resp))
         calls == IF HasError(state) THEN llmCalls ELSE llmCalls + 1
     IN /\ state' = st
        /\ llmCalls' = calls
        /\ pc' = "persist"
        /\ hist' = [NoteFailure(hist, "identify", st, calls, resp.raises)
                      EXCEPT !.malformed =
                        IF ~HasError(state) /\ Malformed(resp, FitsImprovementsSchema(resp.value))
                        THEN @ \cup {"identify"} ELSE @]
  /\ stagesRun' = Append(stagesRun, "identify")
  /\ UNCHANGED <<now, svcVars, dbVars, runs, gateVars>>

\* the metadata column of the row saveResultsNode inserts: the document id,
\* and for a completed task the time of the insert
TaskMetadata(st, t) ==
  [documentId |-> st.documentId, timestamp |-> IF HasError(st) THEN 0 ELSE t]

\* the row saveResultsNode inserts into tasks: failed with the message when
\* the state carries an error, else completed with the result
TaskRecord(st, t) ==
  IF HasError(st)
  THEN [user_id |-> st.userId, session_id |-> st.sessionId,
        task_type |-> "cv_analysis", status |-> "failed",
        result |-> NullResult, error_message |-> st.error,
        metadata |-> TaskMetadata(st, t),
        created_at |-> t, completed_at |-> 0]
  ELSE [user_id |-> st.userId, session_id |-> st.sessionId,
        task_type |-> "cv_analysis", status |-> "completed",
        result |-> [analysis |-> st.analysis, improvements |-> st.improvements,
                    documentId |-> st.documentId],
        error_message |-> Null, metadata |-> TaskMetadata(st, t),
        created_at |-> t, completed_at |-> 0]

\* one element of approvalRecords
ApprovalRecord(st, improvement, t) ==
  [session_id |-> st.sessionId, user_id |-> st.userId,
   document_id |-> st.documentId,
   change_type |-> IF Truthy(improvement.type) THEN improvement.type ELSE "edit",
   original_content |-> improvement.originalContent,
   proposed_content |-> improvement,
   status |-> "pending", user_feedback |-> Null,
   created_at |-> t, decided_at |-> 0]

\* state.improvements && state.improvements.length > 0
HasItems(imp) ==
  \/ imp.shape = "string"
  \/ imp.shape = "array" /\ Len(imp.items) > 0

\* state.improvements.map(...) throws: no map on a string, no property of null
MapThrows(imp) ==
  \/ imp.shape = "string"
  \/ \E i \in DOMAIN imp.items : imp.items[i].isNull

MapError(imp) ==
  IF imp.shape = "string" THEN "state.improvements.map is not a function"
  ELSE "Cannot read properties of null (reading 'type')"

\* the update saveResultsNode returns
saveResultsNode(st) ==
  IF HasError(st) THEN [skipped |-> TRUE]
  ELSE IF HasItems(st.improvements) /\ MapThrows(st.improvements)
  THEN [error |-> MapError(st.improvements)]
  ELSE [approvalStatus |-> "pending"]

\* what an insert of saveResultsNode answers: the store's { error } is null,
\* or set; the code ignores it or logs it
InsertOutcomes == {"ok", "error"}

\* saveResultsNode with the answers of its two inserts
SaveResults(taskInsert, approvalInsert) ==
  /\ pc = "persist"
  /\ tasks' = IF taskInsert = "ok" THEN Append(tasks, TaskRecord(state, now))
              ELSE tasks
  /\ approvals' =
       IF ~HasError(state) /\ HasItems(state.improvements)
          /\ ~MapThrows(state.improvements) /\ approvalInsert = "ok"
       THEN approvals \o [i \in DOMAIN state.improvements.items |->
                            ApprovalRecord(state, state.improvements.items[i], now)]
       ELSE approvals
  /\ state' = Merge(state, saveResultsNode(state))
  /\ pc' = "done"
  /\ stagesRun' = Append(stagesRun, "persist")
  /\ UNCHANGED <<now, svcVars, interview_questions, llmCalls, runs, hist, gateVars>>

\* saveResultsNode with a store that takes both inserts
SaveResultsNode == SaveResults("ok", "ok")

----------------------------------------------------------------------------
(* InterviewAgent.generateInterviewQuestions and its nodes *)

InterviewInitState ==
  [userId |-> Null, sessionId |-> 0, cvDocumentId |-> Null,
   jdDocumentId |-> Null, cvContent |-> Null, jdContent |-> Null,
   questions |-> EmptyList, difficulty |-> "intermediate", error |-> Null]

\* question items the model may return; NullQuestion is the JSON literal null
Question(type, question) == [isNull |-> FALSE, type |-> type, question |-> question]
Question1    == Question("technical", "Explain indexing")
NullQuestion == [isNull |-> TRUE, type |-> Null, question |-> Null]
FallbackQuestion ==
  Question("behavioral", "Tell me about your most challenging project")

\* the JSON documents of the question stage
QuestionsNull        == [isNull |-> TRUE, questions |-> NoImprovements]
QuestionsObject(q)   == [isNull |-> FALSE, questions |-> q]

QuestionResponses ==
  { Response(TRUE, FALSE, "garbage", QuestionsNull) } \cup
  { Response(FALSE, FALSE, t, QuestionsNull) : t \in {"garbage", "truncated"} } \cup
  { Response(FALSE, f, "json", v) :
      f \in BOOLEAN,
      v \in { QuestionsNull, QuestionsObject(NoImprovements),
              QuestionsObject(ImpValue("string", <<>>)) } \cup
            { QuestionsObject(ImpValue("array", l)) :
                l \in {<<>>, <<Question1>>, <<NullQuestion>>} } }

generateInterviewQuestions(userId, cvDocumentId, jdDocumentId) ==
  /\ pc \in Idle
  /\ runs < MaxRuns
  /\ runs' = runs + 1
  /\ state' = [InterviewInitState EXCEPT !.userId = userId,
                 !.sessionId = runs + 1, !.cvDocumentId = cvDocumentId,
                 !.jdDocumentId = jdDocumentId]
  /\ pc' = "parseDocuments"
  /\ llmCalls' = 0
  /\ stagesRun' = <<>>
  /\ hist' = [InitHist EXCEPT !.tasks0 = Len(tasks), !.approvals0 = Len(approvals),
                               !.questions0 = Len(interview_questions)]
  /\ UNCHANGED <<now, svcVars, dbVars, gateVars>>

parseDocumentsNode(st, cv, jd) ==
  CASE cv = "throws"   -> [error |-> DocumentError]
    [] cv = "missing"  -> [error |-> "CV document not found"]
    [] jd = "throws"   -> [error |-> DocumentError]
    [] jd = "missing"  -> [error |-> "Job description document not found"]
    [] OTHER ->
         [cvContent |-> IF cv = "unparsed" THEN "No parsed content available"
                        ELSE "cv text",
          jdContent |-> IF jd = "unparsed" THEN "No parsed content available"
                        ELSE "jd text"]

ParseDocumentsNode(cv, jd) ==
  /\ pc = "parseDocuments"
  /\ LET st == Merge(state, parseDocumentsNode(state, cv, jd))
     IN /\ state' = st
        /\ pc' = AfterStage(st, "generateQuestions", "saveInterview")
        /\ hist' = NoteFailure(hist, "parseDocuments", st, llmCalls, TRUE)
  /\ stagesRun' = Append(stagesRun, "parseDocuments")
  /\ UNCHANGED <<now, svcVars, dbVars, llmCalls, runs, gateVars>>

generateQuestionsNode(st, resp) ==
  IF HasError(st) THEN [skipped |-> TRUE]
  ELSE IF resp.raises THEN [error |-> LLMError]
  ELSE LET parsed == JSONParse(CleanContent(resp), QuestionsNull)
           data   == IF parsed.ok THEN parsed.value
                     ELSE QuestionsObject(ImpValue("array", <<FallbackQuestion>>))
       IN IF data.isNull
          THEN [error |-> "Cannot read properties of null (reading 'questions')"]
          ELSE [questions |-> OrEmptyList(data.questions)]

GenerateQuestionsNode(resp) ==
  /\ pc = "generateQuestions"
  /\ LET st == Merge(state, generateQuestionsNode(state, resp))
         calls == IF HasError(state) THEN llmCalls ELSE llmCalls + 1
     IN /\ state' = st
        /\ llmCalls' = calls
        /\ pc' = "saveInterview"
        /\ hist' = NoteFailure(hist, "generateQuestions", st, calls, resp.raises)
  /\ stagesRun' = Append(stagesRun, "generateQuestions")
  /\ UNCHANGED <<now, svcVars, dbVars, runs, gateVars>>

\* the row the interview saveResultsNode inserts into tasks
InterviewTaskRecord(st, t) ==
  IF HasError(st)
  THEN [user_id |-> st.userId, session_id |-> st.sessionId,
        task_type |-> "interview_preparation", status |-> "failed",
        result |-> NullResult, error_message |-> st.error,
        created_at |-> t, completed_at |-> 0]
  ELSE [user_id |-> st.userId, session_id |-> st.sessionId,
        task_type |-> "interview_preparation", status |-> "completed",
        result |-> [questions |-> st.questions,
                    cvDocumentId |-> st.cvDocumentId,
                    jdDocumentId |-> st.jdDocumentId,
                    difficulty |-> st.difficulty],
        error_message |-> Null, created_at |-> t, completed_at |-> 0]

\* one element of questionRecords
QuestionRecord(st, question, index, t) ==
  [session_id |-> st.sessionId, user_id |-> st.userId,
   document_id |-> st.cvDocumentId, job_description_id |-> st.jdDocumentId,
   question_type |-> IF Truthy(question.type) THEN question.type ELSE "behavioral",
   question_text |-> question.question, order_index |-> index - 1,
   created_at |-> t]

InterviewSaveResultsNode ==
  /\ pc = "saveInterview"
  /\ tasks' = Append(tasks, InterviewTaskRecord(state, now))
  /\ interview_questions' =
       IF ~HasError(state) /\ HasItems(state.questions)
          /\ ~MapThrows(state.questions)
       THEN interview_questions \o
              [i \in DOMAIN state.questions.items |->
                 QuestionRecord(state, state.questions.items[i], i, now)]
       ELSE interview_questions
  /\ state' = Merge(state,
                IF ~HasError(state) /\ HasItems(state.questions)
                   /\ MapThrows(state.questions)
                THEN [error |-> MapError(state.questions)]
                ELSE [skipped |-> TRUE])
  /\ pc' = "interviewDone"
  /\ stagesRun' = Append(stagesRun, "saveInterview")
  /\ UNCHANGED <<now, svcVars, approvals, llmCalls, runs, hist, gateVars>>

----------------------------------------------------------------------------
(* Approval gate: CVAgent.handleApproval behind handleApprovalDecision *)

Callers   == {"c1", "c2"}
Decisions == {"approved", "rejected"}
Feedbacks == {"", "too vague"}

NoCall == [st |-> "idle", approvalId |-> 0, decision |-> Null,
           feedback |-> Null, userId |-> Null, sawPending |-> FALSE]

IsPending(id) == id \in DOMAIN approvals /\ approvals[id].status = "pending"

\* the payload of the update, without decided_at
DecidedRowNoStamp(row, decision, feedback, t) ==
  [row EXCEPT !.status = decision, !.user_feedback = feedback]

\* .update({ status, user_feedback, decided_at })
DecidedRow(row, decision, feedback, t) ==
  [row EXCEPT !.status = decision, !.user_feedback = feedback, !.decided_at = t]

\* .eq('id', approvalId) alone
MatchesAnyOwner(id, userId) == id \in DOMAIN approvals

\* .eq('id', approvalId).eq('user_id', userId): the rows the update touches
Matches(id, userId) == id \in DOMAIN approvals /\ approvals[id].user_id = userId

\* the table after the update; .single() fails when Matches is false
handleApproval(id, decision, feedback, userId) ==
  [i \in DOMAIN approvals |->
     IF i = id /\ Matches(id, userId)
     THEN DecidedRow(approvals[i], decision, feedback, now)
     ELSE approvals[i]]

\* a request enters handleApprovalDecision: feedback || null
HandleApprovalDecision(c, userId, id, decision, feedback) ==
  /\ call[c].st # "sent"
  /\ decides.issued < MaxDecides
  /\ call' = [call EXCEPT ![c] =
                [st |-> "sent", approvalId |-> id, decision |-> decision,
                 feedback |-> IF Truthy(feedback) THEN feedback ELSE Null,
                 userId |-> userId, sawPending |-> IsPending(id)]]
  /\ decides' = [decides EXCEPT !.issued = @ + 1]
  /\ UNCHANGED <<now, svcVars, dbVars, pipeVars, ui, genLog>>

\* the request's update statement runs and the request returns
HandleApproval(c) ==
  /\ call[c].st = "sent"
  /\ LET r  == call[c]
         ok == Matches(r.approvalId, r.userId)
     IN /\ approvals' = handleApproval(r.approvalId, r.decision, r.feedback, r.userId)
        /\ call' = [call EXCEPT ![c] =
                      [NoCall EXCEPT !.st = IF ok THEN "ok" ELSE "error"]]
        /\ decides' = [decides EXCEPT !.won =
                         IF ok /\ r.sawPending THEN Append(@, r.approvalId) ELSE @]
  /\ UNCHANGED <<now, svcVars, tasks, interview_questions, pipeVars, ui, genLog>>

----------------------------------------------------------------------------
(* Artifact generation *)

\* ids of the approvals of a session and owner whose status is in `statuses`,
\* oldest first
RowsWhere(sessionId, userId, statuses) ==
  LET Keep(i) == /\ approvals[i].session_id = sessionId
                 /\ approvals[i].user_id = userId
                 /\ approvals[i].status \in statuses
  IN SelectSeq([i \in DOMAIN approvals |-> i], Keep)

Range(seq) == { seq[i] : i \in DOMAIN seq }

HasStatus(sessionId, userId, status) == RowsWhere(sessionId, userId, {status})

\* CVAgent.getPendingApprovals
getPendingApprovals(sessionId, userId) == HasStatus(sessionId, userId, "pending")

\* every row of the session, whatever its status
AllRows(sessionId, userId) ==
  RowsWhere(sessionId, userId, {"pending", "approved", "rejected"})

\* the rows the generation action selects: status = 'approved'
ApprovedRows(sessionId, userId) == HasStatus(sessionId, userId, "approved")

\* the counts of getApprovalSummary
getApprovalSummary(sessionId, userId) ==
  [total         |-> Len(AllRows(sessionId, userId)),
   approvedCount |-> Len(HasStatus(sessionId, userId, "approved")),
   rejectedCount |-> Len(HasStatus(sessionId, userId, "rejected")),
   pendingCount  |-> Len(HasStatus(sessionId, userId, "pending"))]

\* the ApprovedImprovement objects handed to the generation service
ApprovedImprovements(ids) ==
  [j \in DOMAIN ids |->
     [id |-> ids[j], changeType |-> approvals[ids[j]].change_type,
      content |-> approvals[ids[j]].proposed_content]]

\* imp.changeType.toUpperCase()
ToUpperCase(changeType) ==
  CASE changeType = "add"  -> "ADD"
    [] changeType = "edit" -> "EDIT"
    [] OTHER               -> changeType

\* CVGenerationService.buildImprovementsSummary: one numbered entry per
\* improvement handed in, in order
buildImprovementsSummary(improvements) ==
  [j \in DOMAIN improvements |->
     [index |-> j, changeType |-> ToUpperCase(improvements[j].changeType),
      title |-> improvements[j].content.title]]

\* generate(sessionId, ownerId): reads the approved rows, needs at least one,
\* builds one model request from them
generateUpdatedCV(sessionId, userId) ==
  LET ids == ApprovedRows(sessionId, userId)
  IN [sessionId |-> sessionId,
      ok        |-> ids # <<>>,
      ids       |-> ids,
      request   |-> IF ids = <<>> THEN <<>>
                    ELSE buildImprovementsSummary(ApprovedImprovements(ids)),
      approved  |-> Range(HasStatus(sessionId, userId, "approved")),
      rejected  |-> Range(HasStatus(sessionId, userId, "rejected")),
      pending   |-> Range(HasStatus(sessionId, userId, "pending"))]

----------------------------------------------------------------------------
(* CVAnalysisClient and ApprovalSummary (the browser) *)

NoSummary == [total |-> 0, approvedCount |-> 0, rejectedCount |-> 0,
              pendingCount |-> 0]

InitUI == [step |-> "upload", sessionId |-> 0, userId |-> Null,
           approvals |-> {}, summary |-> NoSummary, mounted |-> FALSE]

\* handleAnalyze up to the call of the workflow
HandleAnalyze(userId, documentId) ==
  /\ ui.step = "upload"
  /\ analyzeCV(userId, documentId)
  /\ ui' = [ui EXCEPT !.step = "analyzing", !.userId = userId]
  /\ UNCHANGED <<call, decides, genLog>>

\* handleAnalyze after the workflow returned: the analysis of the returned
\* state or else of the stored task, then the pending approvals
ShowResults ==
  /\ ui.step = "analyzing"
  /\ pc = "done"
  /\ LET stored == \E i \in DOMAIN tasks :
                      /\ tasks[i].session_id = state.sessionId
                      /\ tasks[i].user_id = ui.userId
                      /\ tasks[i].result # NullResult
     IN ui' = IF state.analysis # NullAnalysis \/ stored
              THEN [ui EXCEPT !.step = "results", !.sessionId = state.sessionId,
                      !.approvals = Range(getPendingApprovals(state.sessionId, ui.userId))]
              ELSE [ui EXCEPT !.step = "upload", !.sessionId = state.sessionId]
  /\ UNCHANGED <<now, svcVars, dbVars, pipeVars, call, decides, genLog>>

\* the "Review n Improvements" button
ReviewImprovements ==
  /\ ui.step = "results"
  /\ ui.approvals # {}
  /\ ui' = [ui EXCEPT !.step = "approvals"]
  /\ UNCHANGED <<now, svcVars, dbVars, pipeVars, call, decides, genLog>>

\* the component's handleApproval: the decision, then the list is refreshed
UIHandleApproval(id, decision) ==
  /\ ui.step = "approvals"
  /\ id \in ui.approvals
  /\ decides.issued < MaxDecides
  /\ LET table == handleApproval(id, decision, Null, ui.userId)
     IN /\ approvals' = table
        /\ ui' = [ui EXCEPT !.approvals =
                    { i \in DOMAIN table :
                        /\ table[i].session_id = ui.sessionId
                        /\ table[i].user_id = ui.userId
                        /\ table[i].status = "pending" }]
  /\ decides' = [issued |-> decides.issued + 1,
                 won |-> IF Matches(id, ui.userId) /\ IsPending(id)
                         THEN Append(decides.won, id) ELSE decides.won]
  /\ UNCHANGED <<now, svcVars, tasks, interview_questions, pipeVars, call, genLog>>

\* both "View Summary" buttons of the approvals step, and "View Approval
\* Summary" of the results step, call handleViewSummary
HandleViewSummary ==
  /\ \/ ui.step = "approvals"
     \/ ui.step = "results" /\ ui.approvals = {}
  /\ ui.sessionId # 0
  /\ ui' = [ui EXCEPT !.summary = getApprovalSummary(ui.sessionId, ui.userId),
                      !.step = "summary", !.mounted = FALSE]
  /\ UNCHANGED <<now, svcVars, dbVars, pipeVars, call, decides, genLog>>

\* the mount effect without its approvedCount test
InitializeComparisonNoGuard ==
  /\ ui.step = "summary"
  /\ ~ui.mounted
  /\ Len(genLog) < MaxGens
  /\ ui' = [ui EXCEPT !.mounted = TRUE]
  /\ genLog' = Append(genLog, generateUpdatedCV(ui.sessionId, ui.userId))
  /\ UNCHANGED <<now, svcVars, dbVars, pipeVars, call, decides>>

\* the effect ApprovalSummary runs when it mounts
InitializeComparison ==
  /\ ui.step = "summary"
  /\ ~ui.mounted
  /\ Len(genLog) < MaxGens
  /\ ui' = [ui EXCEPT !.mounted = TRUE]
  /\ genLog' = IF ui.summary.approvedCount = 0 THEN genLog
               ELSE Append(genLog, generateUpdatedCV(ui.sessionId, ui.userId))
  /\ UNCHANGED <<now, svcVars, dbVars, pipeVars, call, decides>>

OnBack ==
  /\ ui.step = "summary"
  /\ ui' = [ui EXCEPT !.step = "results"]
  /\ UNCHANGED <<now, svcVars, dbVars, pipeVars, call, decides, genLog>>

----------------------------------------------------------------------------
(* RateLimitService *)

Identifiers == {"ip1", "ip2"}
Limits      == {1, 2}
Windows     == {1, 2}

\* which store call of a checkLimit fails, if any
StoreFailures == {"none", "select", "insert"}

NoCheck == [st |-> "idle", identifier |-> Null, limit |-> 0, window |-> 0,
            t |-> 0, count |-> 0]

\* the select counting every hit of the identifier, whatever its age
RequestsAnyAge(identifier, windowStart) ==
  { i \in DOMAIN rateLimits : rateLimits[i].identifier = identifier }

\* the select counting every hit in the window, whatever its identifier
RequestsAnyIdentifier(identifier, windowStart) ==
  { i \in DOMAIN rateLimits : rateLimits[i].createdAt >= windowStart }

\* the rows of the select: eq(identifier) and gte(createdAt, windowStart)
Requests(identifier, windowStart) ==
  { i \in DOMAIN rateLimits :
      /\ rateLimits[i].identifier = identifier
      /\ rateLimits[i].createdAt >= windowStart }

\* the same select on a given table
RequestsIn(table, identifier, windowStart) ==
  { i \in DOMAIN table :
      /\ table[i].identifier = identifier
      /\ table[i].createdAt >= windowStart }

\* the arguments cleanup is called with, in ticks
OlderThans == {1, 2}

NoCleanup == [t |-> 0, olderThan |-> 0, before |-> <<>>, after |-> <<>>]

\* Math.max(0, n)
Max0(n) == IF n > 0 THEN n ELSE 0

\* the object checkLimit returns for a request count
RateLimitResult(limit, window, t, requestCount) ==
  IF requestCount >= limit
  THEN [success |-> FALSE, limit |-> limit, remaining |-> 0, reset |-> t + window]
  ELSE [success |-> TRUE, limit |-> limit,
        remaining |-> Max0(limit - requestCount - 1), reset |-> t + window]

\* the hit row checkLimit inserts
Hit(identifier, t) == [identifier |-> identifier, createdAt |-> t]

\* what a returned call leaves in the history
Returned(identifier, limit, window, t, count, outcome, remaining, failure) ==
  [identifier |-> identifier, limit |-> limit, window |-> window, t |-> t,
   count |-> count, outcome |-> outcome, remaining |-> remaining,
   failure |-> failure]

\* checkLimit by one caller at a time: select, test, insert, return. A store
\* call that fails rejects the promise: nothing catches it
CheckLimit(identifier, limit, window, failure) ==
  /\ Len(rlLog) < MaxCalls
  /\ LET count  == Cardinality(Requests(identifier, now - window))
         result == RateLimitResult(limit, window, now, count)
     IN IF failure = "select"
        THEN /\ rateLimits' = rateLimits
             /\ rlLog' = Append(rlLog, Returned(identifier, limit, window, now,
                                                0, "throws", 0, failure))
        ELSE IF ~result.success
        THEN /\ rateLimits' = rateLimits
             /\ rlLog' = Append(rlLog, Returned(identifier, limit, window, now,
                                                count, "denied", result.remaining,
                                                "none"))
        ELSE IF failure = "insert"
        THEN /\ rateLimits' = rateLimits
             /\ rlLog' = Append(rlLog, Returned(identifier, limit, window, now,
                                                count, "throws", 0, failure))
        ELSE /\ rateLimits' = Append(rateLimits, Hit(identifier, now))
             /\ rlLog' = Append(rlLog, Returned(identifier, limit, window, now,
                                                count, "allowed", result.remaining,
                                                "none"))
  /\ LET result == RateLimitResult(limit, window, now,
                       Cardinality(RequestsIn(uncleaned, identifier, now - window)))
     IN /\ uncleaned' = IF failure = "none" /\ result.success
                        THEN Append(uncleaned, Hit(identifier, now))
                        ELSE uncleaned
        /\ uncleanedLog' = Append(uncleanedLog,
                              IF failure = "select" \/ (failure = "insert" /\ result.success)
                              THEN [outcome |-> "throws", remaining |-> 0]
                              ELSE [outcome |-> IF result.success THEN "allowed"
                                                ELSE "denied",
                                    remaining |-> result.remaining])
  /\ UNCHANGED <<now, dbVars, pipeVars, gateVars, ownVars, rl, cleaned, cacheVars>>

\* the rows cleanup deletes: eq(createdAt, cutoffDate)
CleanupDeletes(row, cutoffDate) == row.createdAt = cutoffDate

\* cleanup(olderThan): cutoffDate = now - olderThan
Cleanup(olderThan) ==
  /\ LET Keep(row) == ~CleanupDeletes(row, now - olderThan)
     IN /\ rateLimits' = SelectSeq(rateLimits, Keep)
        /\ cleaned' = [t |-> now, olderThan |-> olderThan,
                       before |-> rateLimits, after |-> rateLimits']
  /\ UNCHANGED <<now, dbVars, pipeVars, gateVars, ownVars, rl, rlLog,
                 uncleaned, uncleanedLog, cacheVars>>

\* concurrent callers, first await: `now` is read and the select runs
CheckLimitSelect(c, identifier, limit, window) ==
  /\ rl[c].st = "idle"
  /\ Len(rlLog) + Cardinality({ d \in Callers : rl[d].st = "counted" }) < MaxCalls
  /\ rl' = [rl EXCEPT ![c] =
              [st |-> "counted", identifier |-> identifier, limit |-> limit,
               window |-> window, t |-> now,
               count |-> Cardinality(Requests(identifier, now - window))]]
  /\ UNCHANGED <<now, dbVars, pipeVars, gateVars, ownVars, rateLimits, rlLog,
                 cleanVars, cacheVars>>

\* concurrent callers, after the select: the test, the insert, the return
CheckLimitInsert(c) ==
  /\ rl[c].st = "counted"
  /\ LET r      == rl[c]
         result == RateLimitResult(r.limit, r.window, r.t, r.count)
     IN /\ rateLimits' = IF result.success
                         THEN Append(rateLimits, Hit(r.identifier, r.t))
                         ELSE rateLimits
        /\ rlLog' = Append(rlLog,
                      Returned(r.identifier, r.limit, r.window, r.t, r.count,
                               IF result.success THEN "allowed" ELSE "denied",
                               result.remaining, "none"))
  /\ rl' = [rl EXCEPT ![c] = NoCheck]
  /\ UNCHANGED <<now, dbVars, pipeVars, gateVars, ownVars, cleanVars, cacheVars>>

----------------------------------------------------------------------------
(* CacheService *)

\* strings are sequences of characters. Owner ids are the uuids of users.id:
\* they hold no colon; no owner (undefined or '') is the empty string
OwnerIds  == {<<"a">>, <<"b">>}
NoOwner   == <<>>
CacheKeys == {<<"k">>, <<"b", ":", "k">>, <<"%">>}
Values    == {"v1", "v2"}
Ttls      == {0, 1}

\* generateKey without the owner
generateKeyPublic(key, userId) == <<"p", "u", "b", "l", "i", "c", ":">> \o key

\* `user:${userId}:${key}` when userId is truthy, else `public:${key}`
generateKey(key, userId) ==
  IF userId # <<>>
  THEN <<"u", "s", "e", "r", ":">> \o userId \o <<":">> \o key
  ELSE <<"p", "u", "b", "l", "i", "c", ":">> \o key

ScopedKeys ==
  { generateKey(k, u) : k \in CacheKeys, u \in OwnerIds \cup {NoOwner} }

NoEntry == [key |-> <<>>, value |-> Null, by |-> <<"-">>, expiresAt |-> 0]
NeverSet == [entry |-> NoEntry, writes |-> 0]
NoGet   == [st |-> "idle", key |-> <<>>, userId |-> NoOwner]

\* a return of get: the outcome and value the caller sees; whether the entry
\* read had expired; the value of the latest set when it has not expired
NoReturn == [key |-> <<>>, userId |-> NoOwner, outcome |-> Null, value |-> Null,
             by |-> <<"-">>, stale |-> FALSE, expect |-> Null]

\* the row set writes; `by` is the owner the value belongs to, part of the value
Entry(scopedKey, value, by, expiresAt) ==
  [key |-> scopedKey, value |-> value, by |-> by, expiresAt |-> expiresAt]

\* a plain insert
InsertRow(table, entry) == Append(table, entry)

\* insert ... onConflictDoUpdate({target: cache.key, set: {value, expiresAt}})
Upsert(table, entry) ==
  IF \E i \in DOMAIN table : table[i].key = entry.key
  THEN [i \in DOMAIN table |->
          IF table[i].key = entry.key
          THEN [table[i] EXCEPT !.value = entry.value, !.by = entry.by,
                                !.expiresAt = entry.expiresAt]
          ELSE table[i]]
  ELSE Append(table, entry)

\* delete from cache where key = scopedKey
DeleteKey(table, scopedKey) ==
  LET Keep(row) == row.key # scopedKey IN SelectSeq(table, Keep)

\* select ... where key = scopedKey limit 1
SelectKey(table, scopedKey) ==
  IF \E i \in DOMAIN table : table[i].key = scopedKey
  THEN table[CHOOSE i \in DOMAIN table :
                /\ table[i].key = scopedKey
                /\ \A j \in DOMAIN table : table[j].key = scopedKey => i <= j]
  ELSE NoEntry

\* entry.expiresAt && new Date(entry.expiresAt) < new Date()
Expired(entry, t) == entry.expiresAt < t

CacheSet(key, value, userId, ttl) ==
  /\ sets < MaxSets
  /\ sets' = sets + 1
  /\ LET entry == Entry(generateKey(key, userId), value, userId, now + ttl)
     IN /\ cache' = Upsert(cache, entry)
        /\ lastSet' = [lastSet EXCEPT ![entry.key] =
                         [entry |-> entry, writes |-> @.writes + 1]]
  /\ UNCHANGED <<now, dbVars, pipeVars, gateVars, ownVars, rateVars, cleared, cget, cret>>

CacheDelete(key, userId) ==
  /\ cache' = DeleteKey(cache, generateKey(key, userId))
  /\ lastSet' = [lastSet EXCEPT ![generateKey(key, userId)] = NeverSet]
  /\ UNCHANGED <<now, dbVars, pipeVars, gateVars, ownVars, rateVars, cleared, cget, cret, sets>>

\* what get returns right after its select: a hit, or a miss when there is no
\* row; a failing select rejects the promise
GetReturn(key, userId, storeOk, entry, latest, t) ==
  LET r == [NoReturn EXCEPT !.key = key, !.userId = userId,
              !.expect = IF latest # NoEntry /\ ~Expired(latest, t)
                         THEN latest.value ELSE Null]
  IN IF ~storeOk THEN [r EXCEPT !.outcome = "throws"]
     ELSE IF entry = NoEntry THEN [r EXCEPT !.outcome = "miss"]
     ELSE [r EXCEPT !.outcome = "hit", !.value = entry.value, !.by = entry.by]

\* get up to its first await: the select. It returns here unless the entry
\* it read has expired
CacheGetSelect(c, key, userId, storeOk) ==
  /\ cget[c].st = "idle"
  /\ LET scopedKey == generateKey(key, userId)
         entry     == SelectKey(cache, scopedKey)
     IN IF storeOk /\ entry # NoEntry /\ Expired(entry, now)
        THEN /\ cget' = [cget EXCEPT ![c] =
                           [st |-> "expired", key |-> key, userId |-> userId]]
             /\ cret' = cret
        ELSE /\ cget' = cget
             /\ cret' = GetReturn(key, userId, storeOk, entry,
                                  lastSet[scopedKey].entry, now)
  /\ UNCHANGED <<now, dbVars, pipeVars, gateVars, ownVars, rateVars, cleared, cache, lastSet, sets>>

\* get that found an expired entry and returns null without deleting it
CacheGetNoDelete(c) ==
  /\ cget[c].st = "expired"
  /\ cget' = [cget EXCEPT ![c] = NoGet]
  /\ cret' = [NoReturn EXCEPT !.key = cget[c].key, !.userId = cget[c].userId,
                              !.outcome = "miss", !.stale = TRUE]
  /\ UNCHANGED <<now, dbVars, pipeVars, gateVars, ownVars, rateVars, cleared, cache, lastSet, sets>>

\* get that found an expired entry: this.delete(key, userId), return null
CacheGetDelete(c) ==
  /\ cget[c].st = "expired"
  /\ cache' = DeleteKey(cache, generateKey(cget[c].key, cget[c].userId))
  /\ lastSet' = [lastSet EXCEPT
                   ![generateKey(cget[c].key, cget[c].userId)] = NeverSet]
  /\ cget' = [cget EXCEPT ![c] = NoGet]
  /\ cret' = [NoReturn EXCEPT !.key = cget[c].key, !.userId = cget[c].userId,
                              !.outcome = "miss", !.stale = TRUE]
  /\ UNCHANGED <<now, dbVars, pipeVars, gateVars, ownVars, rateVars, cleared, sets>>

NoClear == [userId |-> NoOwner, before |-> <<>>, after |-> <<>>]

\* the string clearUserCache compares the key column with
UserPattern(userId) == <<"u", "s", "e", "r", ":">> \o userId \o <<":", "%">>

\* eq(cache.key, pattern): the rows clearUserCache deletes
ClearDeletes(row, userId) == row.key = UserPattern(userId)

\* clearUserCache(userId)
ClearUserCache(userId) ==
  /\ LET Keep(row) == ~ClearDeletes(row, userId)
     IN /\ cache' = SelectSeq(cache, Keep)
        /\ cleared' = [userId |-> userId, before |-> cache, after |-> cache']
  /\ lastSet' = [sk \in ScopedKeys |->
                   IF sk = UserPattern(userId) THEN NeverSet ELSE lastSet[sk]]
  /\ UNCHANGED <<now, dbVars, pipeVars, gateVars, ownVars, rateVars, cget, cret, sets>>

----------------------------------------------------------------------------
(* Reads by owner: TaskService.getTask and TaskService.pollTask *)

\* what getTask returns for a row; `null` is NotFound
TaskResult(id, row) ==
  [id |-> id, status |-> row.status, result |-> row.result,
   errorMessage |-> row.error_message,
   createdAt |-> row.created_at, completedAt |-> row.completed_at]

NotFound == [id |-> 0, status |-> Null, result |-> NullResult,
             errorMessage |-> Null, createdAt |-> 0, completedAt |-> 0]

\* where id = taskId, whoever owns the row
getTaskAnyOwner(table, taskId, userId) ==
  IF taskId \in DOMAIN table THEN TaskResult(taskId, table[taskId]) ELSE NotFound

\* userId ? and(eq(id), eq(userId)) : eq(id); no row gives null
getTask(table, taskId, userId) ==
  IF /\ taskId \in DOMAIN table
     /\ (Truthy(userId) => table[taskId].user_id = userId)
  THEN TaskResult(taskId, table[taskId])
  ELSE NotFound

\* a table without the rows of the users other than userId
Hide(table, userId) ==
  [i \in { j \in DOMAIN table : table[j].user_id = userId } |-> table[i]]

NoRead == [taskId |-> 0, userId |-> Null, result |-> NotFound, hidden |-> NotFound]

\* `reads` counts the getTask calls of the poll (history)
NoPoll == [st |-> "idle", taskId |-> 0, userId |-> Null, attempt |-> 0,
           reads |-> 0, result |-> NotFound]

\* the loop without its bound on the attempts
pollTaskNoTimeout(table, p) ==
  LET task == getTask(table, p.taskId, p.userId)
  IN IF p.st # "polling" THEN p
     ELSE IF task = NotFound \/ task.status \in Terminal
     THEN [p EXCEPT !.st = "returned", !.result = task, !.reads = @ + 1]
     ELSE p

\* one turn of the loop of pollTask on a table, or the read after the loop
pollTask(table, p) ==
  LET task == getTask(table, p.taskId, p.userId)
  IN IF p.st # "polling" THEN p
     ELSE IF p.attempt >= MaxAttempts \/ task = NotFound \/ task.status \in Terminal
     THEN [p EXCEPT !.st = "returned", !.result = task, !.reads = @ + 1]
     ELSE [p EXCEPT !.attempt = @ + 1, !.reads = @ + 1]

\* what handleApproval gives back: the updated row, or the error of .single()
ApprovalError == [status |-> "error"]

handleApprovalReturn(table, r, t) ==
  IF r.approvalId \in DOMAIN table /\ table[r.approvalId].user_id = r.userId
  THEN DecidedRow(table[r.approvalId], r.decision, r.feedback, t)
  ELSE ApprovalError

GetTask(taskId, userId) ==
  /\ got' = [taskId |-> taskId, userId |-> userId,
             result |-> getTask(tasks, taskId, userId),
             hidden |-> getTask(Hide(tasks, userId), taskId, userId)]
  /\ UNCHANGED <<now, dbVars, pipeVars, gateVars, rateVars, cacheVars, poll, shadow>>

\* pollTask is called
PollTask(c, taskId, userId) ==
  /\ poll[c].st # "polling"
  /\ poll' = [poll EXCEPT ![c] = [NoPoll EXCEPT !.st = "polling",
                                    !.taskId = taskId, !.userId = userId]]
  /\ shadow' = [shadow EXCEPT ![c] = poll'[c]]
  /\ UNCHANGED <<now, dbVars, pipeVars, gateVars, rateVars, cacheVars, got>>

\* one attempt of a running pollTask; its return when the task is gone or
\* terminal, or when the attempts are used up
PollAttempt(c) ==
  /\ poll[c].st = "polling"
  /\ poll' = [poll EXCEPT ![c] = pollTask(tasks, poll[c])]
  /\ shadow' = [shadow EXCEPT ![c] = pollTask(Hide(tasks, shadow[c].userId), shadow[c])]
  /\ UNCHANGED <<now, dbVars, pipeVars, gateVars, rateVars, cacheVars, got>>

----------------------------------------------------------------------------
(* Initial state: empty tables, no invocation *)

Init ==
  /\ now = 1
  /\ tasks = <<>>
  /\ approvals = <<>>
  /\ interview_questions = <<>>
  /\ pc = "idle"
  /\ state = InitState
  /\ llmCalls = 0
  /\ stagesRun = <<>>
  /\ runs = 0
  /\ hist = InitHist
  /\ call = [c \in Callers |-> NoCall]
  /\ decides = [issued |-> 0, won |-> <<>>]
  /\ ui = InitUI
  /\ genLog = <<>>
  /\ rateLimits = <<>>
  /\ rl = [c \in Callers |-> NoCheck]
  /\ rlLog = <<>>
  /\ cache = <<>>
  /\ cget = [c \in Callers |-> NoGet]
  /\ cret = NoReturn
  /\ lastSet = [k \in ScopedKeys |-> NeverSet]
  /\ got = NoRead
  /\ uncleaned = <<>>
  /\ uncleanedLog = <<>>
  /\ cleaned = NoCleanup
  /\ cleared = NoClear
  /\ poll = [c \in Callers |-> NoPoll]
  /\ shadow = [c \in Callers |-> NoPoll]
  /\ sets = 0

NextTasks ==
  \/ CreateTask("u1", 1, "cv_analysis")
  \/ \E id \in 1..MaxTasks, s \in {"processing", "completed", "failed"},
        r \in TaskResults \cup {UndefinedResult}, e \in {Null, "", "e1"} :
       UpdateTaskStatus(id, s, r, e)
  \/ \E id \in 1..MaxTasks, r \in TaskResults : CompleteTask(id, r)
  \/ \E id \in 1..MaxTasks : FailTask(id, "e2")
  \/ Tick

SpecTasks == Init /\ [][NextTasks]_vars

NextPipeline ==
  \/ \E u \in Users : StartRun(u, "doc-1")
  \/ \E d \in Documents : ParseCVNode(d)
  \/ \E r \in AnalysisResponses : AnalyzeStructureNode(r)
  \/ \E r \in ImprovementResponses({Item1, Item2, NullItem}) :
       IdentifyImprovementsNode(r)
  \/ SaveResultsNode
  \/ \E u \in Users : generateInterviewQuestions(u, "doc-1", "doc-2")
  \/ \E cv, jd \in Documents : ParseDocumentsNode(cv, jd)
  \/ \E r \in QuestionResponses : GenerateQuestionsNode(r)
  \/ InterviewSaveResultsNode

SpecPipeline == Init /\ [][NextPipeline]_vars

\* model answers of the improvement stage that are well-formed lists, or no
\* JSON at all
GateResponses ==
  { Response(FALSE, FALSE, "json", JsonObject(ImpValue("array", items))) :
      items \in {<<>>, <<Item1>>, <<Item1, Item2>>} }
  \cup { Response(FALSE, FALSE, "garbage", JsonNull) }

\* analyzeCV with a store whose inserts may fail during persistence
NextPersist ==
  \/ \E u \in Users : StartRun(u, "doc-1")
  \/ \E d \in {"parsed", "missing"} : ParseCVNode(d)
  \/ AnalyzeStructureNode(Response(FALSE, FALSE, "json", ModelAnalysis))
  \/ \E r \in GateResponses : IdentifyImprovementsNode(r)
  \/ \E t, a \in InsertOutcomes : SaveResults(t, a)
  \/ Tick

SpecPersist == Init /\ [][NextPersist]_vars

\* reads and decisions by the owner and by another user, on rows that exist
\* and on ids that do not
NextOwnership ==
  \/ \E u \in Users : StartRun(u, "doc-1")
  \/ ParseCVNode("parsed")
  \/ AnalyzeStructureNode(Response(FALSE, FALSE, "json", ModelAnalysis))
  \/ IdentifyImprovementsNode(
        Response(FALSE, FALSE, "json", JsonObject(ImpValue("array", <<Item1>>))))
  \/ SaveResultsNode
  \/ \E u \in Users, id \in 1..(Len(approvals) + 1) :
        HandleApprovalDecision("c1", u, id, "approved", "")
  \/ HandleApproval("c1")
  \/ \E u \in Users, id \in 1..(Len(tasks) + 1) : GetTask(id, u)
  \/ \E u \in Users, id \in 1..(Len(tasks) + 1) : PollTask("c2", id, u)
  \/ PollAttempt("c2")

SpecOwnership == Init /\ [][NextOwnership]_vars

\* polls by the owner and by another user while TaskService moves the task
NextPoll ==
  \/ \E u \in Users : CreateTask(u, 1, "cv_analysis")
  \/ \E id \in DOMAIN tasks, r \in TaskResults : CompleteTask(id, r)
  \/ \E id \in DOMAIN tasks : FailTask(id, "e2")
  \/ \E u \in Users, id \in 1..(Len(tasks) + 1) : PollTask("c1", id, u)
  \/ PollAttempt("c1")

SpecPoll == Init /\ [][NextPoll]_vars

\* the timer of the sleep fires and the read answers: a running poll goes on
FairPoll == SpecPoll /\ WF_vars(PollAttempt("c1"))

\* the approval gate, called by two concurrent requests
NextApprovals ==
  \/ StartRun("u1", "doc-1")
  \/ ParseCVNode("parsed")
  \/ AnalyzeStructureNode(Response(FALSE, FALSE, "json", ModelAnalysis))
  \/ \E r \in GateResponses : IdentifyImprovementsNode(r)
  \/ SaveResultsNode
  \/ \E c \in Callers, u \in Users, id \in DOMAIN approvals,
        d \in Decisions, f \in Feedbacks : HandleApprovalDecision(c, u, id, d, f)
  \/ \E c \in Callers : HandleApproval(c)

SpecApprovals == Init /\ [][NextApprovals]_vars

\* one browser: analysis, review of the approvals, summary and generation
NextSummary ==
  \/ HandleAnalyze("u1", "doc-1")
  \/ \E d \in {"parsed", "missing"} : ParseCVNode(d)
  \/ AnalyzeStructureNode(Response(FALSE, FALSE, "json", ModelAnalysis))
  \/ \E r \in GateResponses : IdentifyImprovementsNode(r)
  \/ SaveResultsNode
  \/ ShowResults
  \/ ReviewImprovements
  \/ \E id \in DOMAIN approvals, d \in Decisions : UIHandleApproval(id, d)
  \/ HandleViewSummary
  \/ InitializeComparison
  \/ OnBack

SpecSummary == Init /\ [][NextSummary]_vars

\* the rate limiter called by one caller at a time, with a store that may fail
NextRateLimit ==
  \/ \E i \in Identifiers, l \in Limits, w \in Windows :
       CheckLimit(i, l, w, "none")
  \/ \E f \in StoreFailures : CheckLimit("ip1", 2, 1, f)
  \/ Tick

SpecRateLimit == Init /\ [][NextRateLimit]_vars

\* checkLimit calls with one window, one after the other, and cleanup calls
\* between them with olderThan at least that window
NextCleanup ==
  \/ \E i \in Identifiers, l \in Limits : CheckLimit(i, l, 1, "none")
  \/ \E o \in OlderThans : Cleanup(o)
  \/ Tick

SpecCleanup == Init /\ [][NextCleanup]_vars

\* the rate limiter called by concurrent requests
NextRateRace ==
  \/ \E c \in Callers, i \in Identifiers : CheckLimitSelect(c, i, 1, 1)
  \/ \E c \in Callers : CheckLimitInsert(c)
  \/ Tick

SpecRateRace == Init /\ [][NextRateRace]_vars

\* the cache called by concurrent requests, with a store that may fail
NextCache ==
  \/ \E u \in {<<"a">>, NoOwner}, v \in Values, ttl \in Ttls :
       CacheSet(<<"k">>, v, u, ttl)
  \/ \E u \in OwnerIds \cup {NoOwner} : CacheDelete(<<"k">>, u)
  \/ \E c \in Callers, u \in OwnerIds \cup {NoOwner} :
       CacheGetSelect(c, <<"k">>, u, TRUE)
  \/ \E c \in Callers : CacheGetSelect(c, <<"k">>, <<"a">>, FALSE)
  \/ \E c \in Callers : CacheGetDelete(c)
  \/ Tick

SpecCache == Init /\ [][NextCache]_vars

\* entries of two owners and public entries are set, and one owner's are
\* cleared
NextClear ==
  \/ \E k \in {<<"k">>, <<"%">>}, u \in OwnerIds \cup {NoOwner} :
       CacheSet(k, "v1", u, 1)
  \/ \E u \in OwnerIds : ClearUserCache(u)
  \/ Tick

SpecClear == Init /\ [][NextClear]_vars

----------------------------------------------------------------------------
(* C1: once a task is completed or failed, no TaskService call changes its  *)
(* status, result, errorMessage or completedAt.                             *)
C1_TerminalTaskImmutable ==
  [][\A i \in DOMAIN tasks :
       tasks[i].status \in Terminal =>
         /\ tasks'[i].status = tasks[i].status
         /\ tasks'[i].result = tasks[i].result
         /\ tasks'[i].error_message = tasks[i].error_message
         /\ tasks'[i].completed_at = tasks[i].completed_at]_vars

(* C2: a decide call never changes the status, user_feedback or decided_at  *)
(* of an approval that is already approved or rejected.                     *)
C2_DecidedApprovalUnchanged ==
  [][\A i \in DOMAIN approvals :
       approvals[i].status # "pending" =>
         /\ approvals'[i].status = approvals[i].status
         /\ approvals'[i].user_feedback = approvals[i].user_feedback
         /\ approvals'[i].decided_at = approvals[i].decided_at]_vars

\* how many of the requests that entered while approval `id` was pending
\* have succeeded
Winners(id) == Cardinality({ k \in DOMAIN decides.won : decides.won[k] = id })

(* C3: of the decide calls that entered while an approval was still         *)
(* pending, at most one succeeds.                                           *)
C3_OneConcurrentWinner == \A id \in DOMAIN approvals : Winners(id) <= 1

(* C4: an approval's decided_at is set if and only if its status is not     *)
(* pending.                                                                 *)
C4_DecidedAtIffDecided ==
  \A i \in DOMAIN approvals :
     (approvals[i].decided_at # 0) <=> (approvals[i].status # "pending")

\* one approval of a session decided by a successful call, another of the
\* same session still pending
C4_Witness ==
  \E i, j \in DOMAIN approvals :
     /\ approvals[i].status = "rejected"
     /\ approvals[i].user_feedback = "too vague"
     /\ approvals[j].status = "pending"
     /\ approvals[i].session_id = approvals[j].session_id
     /\ \E c \in Callers : call[c].st = "ok"

C6_GenerationAfterAllDecided ==
  \A k \in DOMAIN genLog : genLog[k].pending = {}

----------------------------------------------------------------------------
(* Ownership *)

Sessions == { approvals[i].session_id : i \in DOMAIN approvals }

(* C16: getPendingApprovals returns only pending rows whose user_id is the   *)
(* caller's id, and a decide request changes a row, or gets it back, only    *)
(* when the request's caller id is the user_id stored on the row.            *)
C16_ApprovalsOnlyForOwner ==
  /\ [](\A sid \in Sessions, u \in Users :
          \A i \in Range(getPendingApprovals(sid, u)) :
             approvals[i].user_id = u /\ approvals[i].status = "pending")
  /\ [][/\ \A id \in DOMAIN approvals :
              approvals'[id] # approvals[id] =>
                 \E c \in Callers : /\ call[c].st = "sent" /\ call'[c].st = "ok"
                                     /\ call[c].approvalId = id
                                     /\ call[c].userId = approvals[id].user_id
        /\ \A d \in Callers :
              (call[d].st = "sent" /\ call'[d].st = "ok") =>
                 approvals[call[d].approvalId].user_id = call[d].userId
       ]_vars

\* a request by another user than the owner has failed, the row still pending,
\* and the owner sees the row among the pending ones while the other does not
C16_Witness ==
  \E c \in Callers, id \in DOMAIN approvals :
     /\ call[c].st = "error"
     /\ approvals[id].status = "pending"
     /\ approvals[id].user_id = "u1"
     /\ id \in Range(getPendingApprovals(approvals[id].session_id, "u1"))
     /\ getPendingApprovals(approvals[id].session_id, "u2") = <<>>

(* C17: getTask, every pollTask and every decide request return to their    *)
(* caller what they return on the store without the rows of other users; so *)
(* on two stores that differ only in rows of other users the caller gets    *)
(* the same outcome, and another user's row looks like a row that is not    *)
(* there.                                                                   *)
C17_OwnershipFailureIsNotFound ==
  /\ got.result = got.hidden
  /\ \A c \in Callers : poll[c] = shadow[c]
  /\ \A c \in Callers :
        call[c].st = "sent" =>
           handleApprovalReturn(approvals, call[c], now)
             = handleApprovalReturn(Hide(approvals, call[c].userId), call[c], now)
  /\ \A c \in Callers :
        call[c].st = "sent" =>
           (Matches(call[c].approvalId, call[c].userId)
              <=> handleApprovalReturn(approvals, call[c], now) # ApprovalError)

\* another user's task was read and polled and came back as not found, and a
\* decide request has failed
C17_Witness ==
  /\ got.taskId \in DOMAIN tasks
  /\ tasks[got.taskId].user_id # got.userId
  /\ got.result = NotFound
  /\ \E c \in Callers :
        /\ poll[c].st = "returned"
        /\ poll[c].taskId \in DOMAIN tasks
        /\ tasks[poll[c].taskId].user_id # poll[c].userId
        /\ poll[c].result = NotFound
  /\ \E c \in Callers : call[c].st = "error"
  /\ approvals # <<>>

(* C22: a running pollTask returns; it makes at most MaxAttempts + 1 reads;  *)
(* a read that finds no task of the owner, or a terminal task, ends it at   *)
(* once with what was read; a read of a task still in progress ends it with *)
(* that task only when MaxAttempts polls have been made before.             *)
C22_PollTaskTerminates ==
  /\ \A c \in Callers : (poll[c].st = "polling") ~> (poll[c].st = "returned")
  /\ [](\A c \in Callers : poll[c].reads <= MaxAttempts + 1)
  /\ [][\A c \in Callers :
          (poll[c].st = "polling" /\ poll'[c] # poll[c]) =>
             LET task == getTask(tasks, poll[c].taskId, poll[c].userId)
             IN /\ poll'[c].reads = poll[c].reads + 1
                /\ IF \/ task = NotFound
                      \/ task.status \in Terminal
                      \/ poll[c].reads = MaxAttempts
                   THEN poll'[c].st = "returned" /\ poll'[c].result = task
                   ELSE poll'[c].st = "polling"
      ]_vars

\* a poll of a task that stayed in progress has returned it after
\* MaxAttempts + 1 reads
C22_Witness ==
  \E c \in Callers :
     /\ poll[c].st = "returned"
     /\ poll[c].reads = MaxAttempts + 1
     /\ poll[c].result.status = "processing"

----------------------------------------------------------------------------
(* Rate limiter *)

\* the earlier calls that left a hit of call k's identifier inside call k's
\* window
HitsBefore(k) ==
  { j \in 1..(k - 1) :
      /\ rlLog[j].identifier = rlLog[k].identifier
      /\ rlLog[j].outcome = "allowed"
      /\ rlLog[j].t >= rlLog[k].t - rlLog[k].window }

(* C11: of calls made one after the other with a working store, a call is   *)
(* allowed exactly when fewer than `limit` earlier calls of its identifier  *)
(* were allowed within the last `window` ticks: `limit` calls in a window   *)
(* succeed, the next is denied, and a call after the window succeeds again. *)
C11_WindowAdmitsLimit ==
  \A k \in DOMAIN rlLog :
     rlLog[k].failure = "none" =>
        /\ rlLog[k].outcome \in {"allowed", "denied"}
        /\ rlLog[k].outcome = "allowed" <=>
             Cardinality(HitsBefore(k)) < rlLog[k].limit

\* limit 1: a call allowed, the next within the window denied, a third after
\* the window allowed
C11_Witness ==
  \E i, j, k \in DOMAIN rlLog :
     /\ i < j /\ j < k
     /\ rlLog[i].identifier = rlLog[j].identifier
     /\ rlLog[j].identifier = rlLog[k].identifier
     /\ \A n \in {i, j, k} : rlLog[n].limit = 1 /\ rlLog[n].window = 1
     /\ rlLog[i].outcome = "allowed"
     /\ rlLog[j].outcome = "denied" /\ rlLog[j].t <= rlLog[i].t + 1
     /\ rlLog[k].outcome = "allowed" /\ rlLog[k].t > rlLog[i].t + 1

(* C12: when a call is allowed, the hits of its identifier recorded inside  *)
(* its window never number more than its limit, however concurrent calls    *)
(* with the same limit and window interleave.                               *)
C12_HitsNeverExceedLimit ==
  \A k \in DOMAIN rlLog :
     rlLog[k].outcome = "allowed" =>
        Cardinality({ i \in DOMAIN rateLimits :
                        /\ rateLimits[i].identifier = rlLog[k].identifier
                        /\ rateLimits[i].createdAt >= rlLog[k].t - rlLog[k].window
                        /\ rateLimits[i].createdAt <= rlLog[k].t })
          <= rlLog[k].limit

(* C13: a call with a working store that finds c hits of its identifier at  *)
(* or after now - window is denied and leaves the table unchanged when      *)
(* c >= limit, and otherwise appends one hit of that identifier and returns *)
(* remaining = limit - c - 1.                                               *)
C13_CheckLimitFunction ==
  [][(rlLog' # rlLog /\ rlLog'[Len(rlLog')].failure = "none") =>
       LET e == rlLog'[Len(rlLog')]
           c == Cardinality({ i \in DOMAIN rateLimits :
                                /\ rateLimits[i].identifier = e.identifier
                                /\ rateLimits[i].createdAt >= now - e.window })
       IN IF c >= e.limit
          THEN /\ e.outcome = "denied"
               /\ rateLimits' = rateLimits
          ELSE /\ e.outcome = "allowed"
               /\ e.remaining = e.limit - c - 1
               /\ rateLimits' = Append(rateLimits,
                                  [identifier |-> e.identifier, createdAt |-> now])
    ]_vars

\* a call allowed with one hit of its own identifier in the window while the
\* window also holds a hit of another identifier
C13_Witness ==
  \E k \in DOMAIN rlLog :
     /\ rlLog[k].outcome = "allowed"
     /\ rlLog[k].count = 1
     /\ rlLog[k].remaining = 0
     /\ \E j \in 1..(k - 1) :
          /\ rlLog[j].identifier # rlLog[k].identifier
          /\ rlLog[j].outcome = "allowed"
          /\ rlLog[j].t >= rlLog[k].t - rlLog[k].window

(* C21: every checkLimit call returns the same outcome and the same         *)
(* remaining count as it does when cleanup never runs.                      *)
C21_CleanupDoesNotChangeResults ==
  \A k \in DOMAIN rlLog :
     /\ rlLog[k].outcome = uncleanedLog[k].outcome
     /\ rlLog[k].remaining = uncleanedLog[k].remaining

(* C27: after cleanup(olderThan) no hit created before now - olderThan is   *)
(* left, and every hit created after now - olderThan is still there.        *)
C27_CleanupDeletesOldHitsOnly ==
  LET Old(row) == row.createdAt < cleaned.t - cleaned.olderThan
      New(row) == row.createdAt > cleaned.t - cleaned.olderThan
  IN /\ SelectSeq(cleaned.after, Old) = <<>>
     /\ SelectSeq(cleaned.after, New) = SelectSeq(cleaned.before, New)

(* C18: a call during which a store call failed returns a denial.           *)
C18_RateLimiterFailsClosed ==
  \A k \in DOMAIN rlLog :
     rlLog[k].failure # "none" => rlLog[k].outcome = "denied"

----------------------------------------------------------------------------
(* Cache *)

\* the rows of the cache table with a scoped key
RowsOf(table, scopedKey) == { i \in DOMAIN table : table[i].key = scopedKey }

(* C14: a get that read an expired entry returns a miss and leaves no row   *)
(* for its scoped key, and a get returns a value only when the store holds  *)
(* a row for its scoped key that has not expired: a second get also misses. *)
C14_ExpiredGetMissesAndRemoves ==
  [][/\ \A c \in Callers :
          (cget[c].st = "expired" /\ cget'[c].st = "idle") =>
             /\ cret'.outcome = "miss"
             /\ RowsOf(cache', generateKey(cget[c].key, cget[c].userId)) = {}
     /\ (cget' = cget /\ cret' # cret /\ cret'.outcome = "hit") =>
          \E i \in RowsOf(cache, generateKey(cret'.key, cret'.userId)) :
             ~(cache[i].expiresAt < now)
    ]_vars

\* a get returned a miss for an entry it found expired, and the entry is gone
C14_Witness ==
  /\ cret.outcome = "miss"
  /\ cret.stale
  /\ sets > 0
  /\ RowsOf(cache, generateKey(cret.key, cret.userId)) = {}

\* logical keys, with colons and with the prefixes themselves inside
ScopingKeys ==
  CacheKeys \cup { <<>>, <<"a", ":", "k">>, <<":", "k">>,
                   <<"u", "s", "e", "r", ":", "a", ":", "k">>,
                   <<"p", "u", "b", "l", "i", "c", ":", "k">> }

(* C15: two different (key, owner) pairs, owner-scoped or public, never get *)
(* the same scoped key; every row sits under the scoped key of the owner it *)
(* was set for; and a get returns only a value set for its own owner.       *)
C15_ScopedKeysIsolateOwners ==
  /\ \A k1, k2 \in ScopingKeys, u1, u2 \in OwnerIds \cup {NoOwner} :
        generateKey(k1, u1) = generateKey(k2, u2) => (k1 = k2 /\ u1 = u2)
  /\ \A i \in DOMAIN cache : cache[i].key = generateKey(<<"k">>, cache[i].by)
  /\ cret.outcome = "hit" => cret.by = cret.userId

\* a get by owner b misses while the store holds an unexpired value of owner a
\* and a public value under the same logical key
C15_Witness ==
  /\ cret.userId = <<"b">>
  /\ cret.outcome = "miss"
  /\ \E i, j \in DOMAIN cache :
        /\ cache[i].by = <<"a">> /\ cache[j].by = NoOwner
        /\ ~Expired(cache[i], now) /\ ~Expired(cache[j], now)

\* the scoped key starts with user:<userId>:
OwnedBy(row, userId) ==
  LET prefix == <<"u", "s", "e", "r", ":">> \o userId \o <<":">>
  IN /\ Len(row.key) >= Len(prefix)
     /\ SubSeq(row.key, 1, Len(prefix)) = prefix

(* C26: after clearUserCache(userId) no entry whose scoped key starts with   *)
(* user:<userId>: is left, and the entries of other owners and the public    *)
(* entries are those that were there before.                                 *)
C26_ClearUserCacheRemovesOwnEntries ==
  LET Own(row)   == OwnedBy(row, cleared.userId)
      Other(row) == ~OwnedBy(row, cleared.userId)
  IN cleared # NoClear =>
       /\ SelectSeq(cleared.after, Own) = <<>>
       /\ SelectSeq(cleared.after, Other) = SelectSeq(cleared.before, Other)

(* C28: the delete that a get issues after reading an expired entry removes *)
(* only an expired row: a value set in the meantime for the same key and    *)
(* owner, whose TTL has not passed, stays in the store for later gets.      *)
C28_LazyDeleteKeepsFreshValue ==
  [][\A c \in Callers :
       (cget[c].st = "expired" /\ cget'[c].st = "idle") =>
          \A i \in RowsOf(cache, generateKey(cget[c].key, cget[c].userId)) :
             Expired(cache[i], now)
    ]_vars

(* C19: a get never raises: when the store call fails it returns a miss.    *)
C19_CacheFailsOpen == cret.outcome # "throws"

(* C20: the store holds at most one row per scoped key, a row for exactly   *)
(* the keys set and not deleted since, with the value and expiry of the     *)
(* latest set; and a get whose select works returns that value when the     *)
(* latest set has not expired.                                              *)
C20_SetIsUpsert ==
  /\ \A i, j \in DOMAIN cache : cache[i].key = cache[j].key => i = j
  /\ \A sk \in ScopedKeys :
        IF lastSet[sk].writes = 0 THEN RowsOf(cache, sk) = {}
        ELSE \E i \in DOMAIN cache : cache[i] = lastSet[sk].entry
  /\ (cret.outcome \in {"hit", "miss"} /\ cret.expect # Null) =>
        (cret.outcome = "hit" /\ cret.value = cret.expect)

\* a key set twice without a delete in between, with different values, and a
\* get that returned the second value
C20_Witness ==
  \E sk \in ScopedKeys :
     /\ lastSet[sk].writes = 2
     /\ lastSet[sk].entry.value = "v2"
     /\ sk = generateKey(cret.key, cret.userId)
     /\ cret.outcome = "hit"
     /\ cret.value = "v2"

----------------------------------------------------------------------------
(* Rows the current pipeline invocation has written *)

RunTasks     == SubSeq(tasks, hist.tasks0 + 1, Len(tasks))
RunApprovals == SubSeq(approvals, hist.approvals0 + 1, Len(approvals))
RunQuestions ==
  SubSeq(interview_questions, hist.questions0 + 1, Len(interview_questions))

\* the nodes analyzeCV calls up to and including `stage`
UpTo(stage) ==
  CASE stage = "parse"    -> <<"parse">>
    [] stage = "analyze"  -> <<"parse", "analyze">>
    [] stage = "identify" -> <<"parse", "analyze", "identify">>
    [] stage = "parseDocuments" -> <<"parseDocuments">>
    [] OTHER -> <<"parseDocuments", "generateQuestions">>

\* the persistence node of the pipeline `stage` belongs to
SaveOf(stage) ==
  IF stage \in {"parse", "analyze", "identify"} THEN "persist" ELSE "saveInterview"

\* the steps of analyzeCV, in the order of its code
StageOrder == <<"parse", "analyze", "identify", "persist">>

Rank(stage) == CHOOSE i \in DOMAIN StageOrder : StageOrder[i] = stage

\* st2 is st with exactly the fields of the update overwritten
Assigned(st, st2, update) ==
  \A f \in DOMAIN st : st2[f] = IF f \in DOMAIN update THEN update[f] ELSE st[f]

\* the next step of stagesRun is `stage`
Runs(stage) == stagesRun' = Append(stagesRun, stage)

(* C23: the stages of an analyzeCV invocation run in the order parse,        *)
(* analyze, identify, persist, each at most once and parse first; a stage    *)
(* leaves the pipeline state equal to the state it read with exactly the     *)
(* fields of its returned update overwritten; so analyze reads the parsed    *)
(* content, identify runs after analyze, and persistence of a state without  *)
(* error runs after all three.                                               *)
C23_StagesInOrder ==
  /\ [](pc \in Range(StageOrder) \cup {"done"} =>
         /\ \A i, j \in DOMAIN stagesRun :
               i < j => Rank(stagesRun[i]) < Rank(stagesRun[j])
         /\ stagesRun # <<>> => stagesRun[1] = "parse"
         /\ pc # "done" => \A i \in DOMAIN stagesRun : Rank(stagesRun[i]) < Rank(pc)
         /\ pc # "parse" => stagesRun # <<>>
         /\ pc = "done" => stagesRun[Len(stagesRun)] = "persist"
         /\ pc = "analyze" => state.cvContent # Null
         /\ pc = "identify" => stagesRun = <<"parse", "analyze">>
         /\ (pc = "persist" /\ ~HasError(state)) =>
               stagesRun = <<"parse", "analyze", "identify">>)
  /\ [][/\ Runs("parse") =>
            \E d \in Documents : Assigned(state, state', parseCVNode(state, d))
        /\ Runs("analyze") =>
            \E r \in AnalysisResponses :
               Assigned(state, state', analyzeStructureNode(state, r))
        /\ Runs("identify") =>
            \E r \in ImprovementResponses({Item1, Item2, NullItem}) :
               Assigned(state, state', identifyImprovementsNode(state, r))
        /\ Runs("persist") => Assigned(state, state', saveResultsNode(state))
       ]_vars

\* a run went through the four stages and ended without error
C23_Witness ==
  /\ pc = "done"
  /\ stagesRun = StageOrder
  /\ ~HasError(state)
  /\ state.cvContent # Null
  /\ HasItems(state.improvements)

(* C24: an analyzeCV invocation whose document is missing, cannot be read   *)
(* or has no parsed text goes no further than the parse step: no model call *)
(* is made for it and neither analyze nor identify runs.                    *)
C24_InvalidInputRejectedEarly ==
  (/\ pc \in Range(StageOrder) \cup {"done"}
   /\ \/ hist.failedAt = "parse"
      \/ state.cvContent = "No parsed content available")
  => /\ llmCalls = 0
     /\ \A i \in DOMAIN stagesRun : stagesRun[i] \in {"parse", "persist"}

(* C30: every row of the tasks table has completed_at set if and only if    *)
(* its status is completed or failed.                                       *)
C30_CompletedAtIffTerminal ==
  \A i \in DOMAIN tasks :
     (tasks[i].completed_at # 0) <=> (tasks[i].status \in Terminal)

\* a fallback payload stands in the state for the output of a model stage
Substituted(st) ==
  st.analysis = FallbackAnalysis \/ st.improvements = FallbackImprovements

(* C25: the completed Task of a run in which a fallback payload was          *)
(* substituted carries metadata that differ from the metadata the run writes *)
(* when the model stages return well-formed output.                          *)
C25_DegradationInMetadata ==
  (/\ pc = "done"
   /\ Substituted(state)
   /\ Len(RunTasks) = 1
   /\ RunTasks[1].status = "completed")
  => \A imp \in {EmptyList, ImpValue("array", <<Item1>>)} :
        RunTasks[1].metadata #
          TaskMetadata([state EXCEPT !.analysis = ModelAnalysis,
                                     !.improvements = imp],
                       RunTasks[1].created_at)

(* C29: when an analyzeCV invocation has returned, its state carries an     *)
(* error if and only if the invocation has written a Task row with status   *)
(* failed.                                                                  *)
C29_ReturnedStateAgreesWithLedger ==
  pc = "done" =>
    (HasError(state) <=> \E i \in DOMAIN RunTasks : RunTasks[i].status = "failed")

(* C7: a run in which a model-calling stage received malformed output (not  *)
(* JSON, truncated, or JSON outside the schema) and in which no document    *)
(* lookup or model call raised an error ends with a completed Task, never   *)
(* with a failed one.                                                       *)
C7_MalformedNeverFails ==
  (pc = "done" /\ hist.malformed # {} /\ ~hist.upstream) =>
     /\ Len(RunTasks) = 1
     /\ RunTasks[1].status = "completed"

C9_OneTaskRowApprovalPerItem ==
  pc = "done" =>
     /\ Len(RunTasks) = 1
     /\ RunTasks[1].status \in Terminal
     /\ IF RunTasks[1].status = "completed"
        THEN /\ Len(RunApprovals) = Len(state.improvements.items)
             /\ \A i \in DOMAIN RunApprovals :
                  /\ RunApprovals[i].status = "pending"
                  /\ RunApprovals[i].proposed_content = state.improvements.items[i]
        ELSE RunApprovals = <<>>

(* C10: while the stages of an invocation run, the tasks table holds the    *)
(* invocation's row with status processing, created at pipeline start.      *)
C10_ProcessingRowAtStart ==
  pc \in {"parse", "analyze", "identify", "persist"} =>
     \E i \in DOMAIN RunTasks :
        /\ RunTasks[i].status = "processing"
        /\ RunTasks[i].session_id = state.sessionId

====
